---- MODULE Spec2Model ----
(***************************************************************************)
(* FastBERT adaptive-depth inference: the replay that FastBERTClassifier   *)
(* runs over the flat stream of per-head probability vectors               *)
(* (uf/application/fast_bert.py, _get_predict_outputs / _get_score_outputs  *)
(* and the predict / score / export facade).                               *)
(*                                                                         *)
(* Probabilities and the speed threshold are held in percent (0..100);     *)
(* logarithms are tabulated in units of 1e-5 nat and the uncertainty is    *)
(* held in units of 1e-4.  Python lists and numpy arrays are sequences;    *)
(* a Python index j is the sequence index j + 1.                           *)
(***************************************************************************)
EXTENDS Integers, Sequences, FiniteSets, TLC

VARIABLES
    \* facade attributes read by _permutate
    _gpu_ids, batch_size, label_size, num_hidden_layers, _ignore_cls, _speed,
    \* the execution engine: the vectors each head gives each example, and
    \* the flat stream it hands to _permutate
    truth, batch_probs,
    \* _permutate: position in the code and its locals
    pc, n_device, d_batch_size, probs, sources, max_loop, keep_cls,
    i, d, unfinished, loop, source, next_unfinished, k,
    \* history: how many times each row of probs/sources was assigned
    written,
    \* history of the shard under way: the sum of len(unfinished) over the
    \* iterations entered, and how many examples were carried to a next one
    len_sum, n_carried,
    \* _get_predict_outputs / _get_score_outputs: the batches of one call
    n_inputs, truths, output_arrays, batch_idx, probs_arrays,
    sources_arrays,
    out_probs, out_sources,
    \* predict / score / export: the graph cache and the call under way
    _graph_mode, graph_config, call, last_forward,
    \* a sequence of _permutate calls: the number of the call under way, the
    \* attributes and stream of the first call, and what the first call gave
    call_no, saved_input, first_outcome,
    \* the arguments and the value of a function applied on its own
    args, result,
    \* a TinyBERT classifier: whether its graph is built, its checkpoint
    \* path, the variables of its graph, and the files written so far
    _graph_built, init_checkpoint, global_variables, files

configVars == <<_gpu_ids, batch_size, label_size, num_hidden_layers,
                _ignore_cls, _speed>>
engineVars == <<truth, batch_probs>>
localVars  == <<n_device, d_batch_size, probs, sources, max_loop, keep_cls,
                i, d, unfinished, loop, source, next_unfinished, k>>
outerVars  == <<n_inputs, truths, output_arrays, batch_idx, probs_arrays,
                sources_arrays, out_probs, out_sources>>
facadeVars == <<_graph_mode, graph_config, call, last_forward>>
histVars   == <<len_sum, n_carried>>
auxVars    == <<call_no, saved_input, first_outcome, args, result>>
tinyVars   == <<_graph_built, init_checkpoint, global_variables, files>>
vars == <<configVars, engineVars, pc, localVars, written, histVars,
          outerVars, facadeVars, auxVars, tinyVars>>

----------------------------------------------------------------------------
(* Bounds of the model *)

MaxDevices == 2
MaxBatch   == 2
MaxLayers  == 2

\* first-class probabilities (percent) the heads may emit
ProbLevels == {1, 50, 95}
\* speed thresholds (percent) a caller may pass; 10 is the default 0.1
Speeds == {10, 100}

----------------------------------------------------------------------------
(* Sequence helpers (Python list / numpy semantics) *)

\* s[j] for a Python index j >= 0
At(s, j) == s[j + 1]

\* list(range(n))
Range(n) == [j \in 1..n |-> j - 1]

\* the elements of a list
Elems(s) == {s[j] : j \in 1..Len(s)}

\* x in s
In(x, s) == x \in Elems(s)

\* the ascending list of a finite set of integers
RECURSIVE SortedSeq(_)
SortedSeq(S) ==
    IF S = {} THEN <<>>
    ELSE LET m == CHOOSE x \in S : \A y \in S : x <= y
         IN  <<m>> \o SortedSeq(S \ {m})

\* np.zeros(n)
Zeros(n) == [j \in 1..n |-> 0]

\* max(a, b)
Max2(a, b) == IF a >= b THEN a ELSE b

----------------------------------------------------------------------------
(* _uncertainty *)

\* np.log(x) for x in percent, in units of 1e-5 nat
np_log(x) ==
    CASE x = 1   -> -460517
      [] x = 5   -> -299573
      [] x = 10  -> -230259
      [] x = 20  -> -160944
      [] x = 50  -> -69315
      [] x = 80  -> -22314
      [] x = 90  -> -10536
      [] x = 95  -> -5129
      [] x = 99  -> -1005
      [] x = 100 -> 0

\* np.log(1 / label_size), in units of 1e-5 nat
np_log_inv(n) ==
    CASE n = 2 -> -69315
      [] n = 3 -> -109861

\* _uncertainty(prob), in units of 1e-4.  A prob below 1e-20 or above
\* 1 - 1e-20 is replaced by 1e-20, whose entropy term (-4.6e-19) is 0 at
\* this resolution.
_uncertainty(prob, n_labels) ==
    LET numer == IF prob < 1 \/ 100 - prob < 1
                 THEN 0
                 ELSE (prob * np_log(prob)
                        + (100 - prob) * np_log(100 - prob)) \div 100
    IN  ((0 - numer) * 10000) \div (0 - np_log_inv(n_labels))

\* SpeedUnits with the threshold taken ten times too large
SpeedUnits_Tenfold(speed) == speed * 1000

\* self._speed in the units of _uncertainty
SpeedUnits(speed) == speed * 100

----------------------------------------------------------------------------
(* _permutate: the expressions of its body *)

\* n_device = max(len(self._gpu_ids), 1)
NDevice(gpu_ids) == Max2(Len(gpu_ids), 1)

\* MaxLoop counting every head, ignored or not
MaxLoop_AllHeads(n_layers, ignore) == n_layers + 1

\* MaxLoop without the head after the last layer
MaxLoop_OffByOne(n_layers, ignore) == n_layers - Len(ignore)

\* max_loop = num_hidden_layers + 1 - len(self._ignore_cls)
MaxLoop(n_layers, ignore) == n_layers + 1 - Len(ignore)

\* KeepCls with the last head kept whether or not it is ignored
KeepCls_LastKept(n_layers, ignore) ==
    SelectSeq(Range(n_layers + 1),
              LAMBDA cls_idx : ~In(cls_idx, ignore) \/ cls_idx = n_layers)

\* keep_cls = [cls_idx for cls_idx in range(num_hidden_layers + 1)
\*             if cls_idx not in self._ignore_cls]
KeepCls(n_layers, ignore) ==
    SelectSeq(Range(n_layers + 1), LAMBDA cls_idx : ~In(cls_idx, ignore))

\* InitUnfinished with an empty list for every shard
InitUnfinished_Empty(i_, d_batch_size_) == <<>>

\* unfinished = [k + i for k in range(d_batch_size)]
InitUnfinished(i_, d_batch_size_) ==
    [j \in 1..d_batch_size_ |-> (j - 1) + i_]

\* Resolves with "at or below speed" in place of "below speed"
Resolves_NonStrict(vec, loop_, max_loop_, speed, n_labels) ==
    \/ _uncertainty(At(vec, 0), n_labels) <= SpeedUnits(speed)
    \/ loop_ = max_loop_ - 1

\* Resolves without the forced exit of the last iteration
Resolves_NoForcedExit(vec, loop_, max_loop_, speed, n_labels) ==
    _uncertainty(At(vec, 0), n_labels) < SpeedUnits(speed)

\* _uncertainty(batch_probs[i][0]) < self._speed or loop == max_loop - 1
Resolves(vec, loop_, max_loop_, speed, n_labels) ==
    \/ _uncertainty(At(vec, 0), n_labels) < SpeedUnits(speed)
    \/ loop_ = max_loop_ - 1

----------------------------------------------------------------------------
(* The execution engine (uf/modeling/fast_bert.py, outside the files        *)
(* modelled here): the cascade schedule of the specification, sections      *)
(* 4.2, 4.3 and 6.                                                          *)

\* a probability vector of label_size 2 whose first class has probability p
Vec(p) == <<p, 100 - p>>
Vectors == {Vec(p) : p \in ProbLevels}

\* the cell of a head that was never evaluated for an example
NotComputed == <<>>

\* the top-class probability of a vector
TopProb(vec) ==
    CHOOSE p \in Elems(vec) : \A q \in Elems(vec) : q <= p

\* section 4.2: an example is resolved at iteration loop_ when the
\* uncertainty of its top-class probability is below speed, or on the last
\* iteration
EngineResolves(vec, loop_, max_loop_, speed, n_labels) ==
    \/ _uncertainty(TopProb(vec), n_labels) < SpeedUnits(speed)
    \/ loop_ = max_loop_ - 1

\* the rows a cascade can give one example: heads outside keep are never
\* evaluated, kept heads are evaluated in order up to and including the
\* first one that resolves the example
RECURSIVE RowOk(_, _, _, _, _, _)
RowOk(row, keep, j, live, speed, n_labels) ==
    IF j > Len(keep) THEN TRUE
    ELSE LET cell == row[keep[j] + 1]
         IN  IF ~live THEN cell = NotComputed
                           /\ RowOk(row, keep, j + 1, FALSE, speed, n_labels)
             ELSE cell # NotComputed
                  /\ RowOk(row, keep, j + 1,
                           ~EngineResolves(cell, j - 1, Len(keep),
                                           speed, n_labels),
                           speed, n_labels)

Rows(n_layers, ignore, speed, n_labels) ==
    LET keep == KeepCls(n_layers, ignore)
    IN  {row \in [1..(n_layers + 1) -> Vectors \cup {NotComputed}] :
            /\ \A h \in 0..n_layers :
                  ~In(h, keep) => row[h + 1] = NotComputed
            /\ RowOk(row, keep, 1, TRUE, speed, n_labels)}

\* one shard's part of the stream: for each iteration, the vectors of the
\* examples still unfinished, in order
RECURSIVE EngineLoop(_, _, _, _, _, _)
EngineLoop(table, unf, loop_, keep, speed, n_labels) ==
    IF loop_ >= Len(keep) THEN <<>>
    ELSE LET head    == keep[loop_ + 1]
             emitted == [j \in 1..Len(unf) |-> table[unf[j] + 1][head + 1]]
             carried == SelectSeq(unf, LAMBDA e :
                            ~EngineResolves(table[e + 1][head + 1], loop_,
                                            Len(keep), speed, n_labels))
         IN  emitted \o EngineLoop(table, carried, loop_ + 1, keep,
                                   speed, n_labels)

\* the flat stream: device-major, then iteration, then unfinished order
RECURSIVE EngineStream(_, _, _, _, _, _, _)
EngineStream(table, dev, n_dev, shard, keep, speed, n_labels) ==
    IF dev >= n_dev THEN <<>>
    ELSE EngineLoop(table, [j \in 1..shard |-> dev * shard + (j - 1)], 0,
                    keep, speed, n_labels)
         \o EngineStream(table, dev + 1, n_dev, shard, keep, speed, n_labels)

----------------------------------------------------------------------------
(* Initial states: the facade attributes and the stream of one call *)

GpuIdLists == {Range(n) : n \in 0..MaxDevices}

\* parsed ignore lists: ascending, without repetition, within 0..L
IgnoreLists(n_layers) == {SortedSeq(S) : S \in SUBSET (0..n_layers)}

InitLocals ==
    /\ n_device = 0 /\ d_batch_size = 0
    /\ probs = <<>> /\ sources = <<>>
    /\ max_loop = 0 /\ keep_cls = <<>>
    /\ i = 0 /\ d = 0 /\ unfinished = <<>> /\ loop = 0 /\ source = 0
    /\ next_unfinished = <<>> /\ k = 0
    /\ written = <<>>
    /\ len_sum = 0 /\ n_carried = 0

\* Python's None, and a value held where None may be held, for the
\* attributes and history variables that start as None
None == <<>>
Some(x) == <<x>>

\* no batch loop under way
InitOuter ==
    /\ n_inputs = 0 /\ truths = <<>> /\ output_arrays = <<>>
    /\ batch_idx = 0
    /\ probs_arrays = <<>> /\ sources_arrays = <<>>
    /\ out_probs = <<>> /\ out_sources = <<>>

\* no facade call under way, no graph built
InitFacade ==
    /\ _graph_mode = "None" /\ graph_config = None
    /\ call = None /\ last_forward = None

\* no TinyBERT classifier: no graph, no checkpoint, nothing written
InitTiny ==
    /\ _graph_built = FALSE /\ init_checkpoint = None
    /\ global_variables = {} /\ files = <<>>

\* a single call, and no function applied on its own
InitAux ==
    /\ call_no = 0 /\ saved_input = None /\ first_outcome = None
    /\ args = None /\ result = None

Init ==
    /\ _gpu_ids \in GpuIdLists
    /\ batch_size \in {bs \in 1..MaxBatch : bs % NDevice(_gpu_ids) = 0}
    /\ label_size = 2
    /\ num_hidden_layers \in 1..MaxLayers
    /\ _ignore_cls \in IgnoreLists(num_hidden_layers)
    /\ _speed \in Speeds
    /\ truth \in [1..batch_size ->
                    Rows(num_hidden_layers, _ignore_cls, _speed, label_size)]
    /\ batch_probs = EngineStream(truth, 0, NDevice(_gpu_ids),
                                  batch_size \div NDevice(_gpu_ids),
                                  KeepCls(num_hidden_layers, _ignore_cls),
                                  _speed, label_size)
    /\ pc = "call"
    /\ InitLocals
    /\ InitOuter
    /\ InitFacade
    /\ InitTiny
    /\ InitAux

----------------------------------------------------------------------------
(* _permutate, statement by statement *)

\* PermutateEnter with probs and sources kept from the call before when
\* their shapes fit, instead of allocated anew
PermutateEnter_Stale ==
    /\ UNCHANGED <<outerVars, facadeVars, tinyVars, auxVars>>
    /\ pc = "call"
    /\ n_device' = NDevice(_gpu_ids)
    /\ d_batch_size' = batch_size \div NDevice(_gpu_ids)
    /\ probs' = IF Len(probs) = batch_size THEN probs
                ELSE [p \in 1..batch_size |-> Zeros(label_size)]
    /\ sources' = IF Len(sources) = batch_size THEN sources
                  ELSE Zeros(batch_size)
    /\ max_loop' = MaxLoop(num_hidden_layers, _ignore_cls)
    /\ keep_cls' = KeepCls(num_hidden_layers, _ignore_cls)
    /\ i' = 0
    /\ d' = 0
    /\ written' = Zeros(batch_size)
    /\ len_sum' = 0 /\ n_carried' = 0
    /\ pc' = "device"
    /\ UNCHANGED <<configVars, engineVars, unfinished, loop, source,
                   next_unfinished, k>>

\* lines 248-258: the locals before the device loop
PermutateEnter ==
    /\ UNCHANGED <<outerVars, facadeVars, tinyVars, auxVars>>
    /\ pc = "call"
    /\ n_device' = NDevice(_gpu_ids)
    /\ d_batch_size' = batch_size \div NDevice(_gpu_ids)
    /\ probs' = [p \in 1..batch_size |-> Zeros(label_size)]
    /\ sources' = Zeros(batch_size)
    /\ max_loop' = MaxLoop(num_hidden_layers, _ignore_cls)
    /\ keep_cls' = KeepCls(num_hidden_layers, _ignore_cls)
    /\ i' = 0
    /\ d' = 0
    /\ written' = Zeros(batch_size)
    /\ len_sum' = 0 /\ n_carried' = 0
    /\ pc' = "device"
    /\ UNCHANGED <<configVars, engineVars, unfinished, loop, source,
                   next_unfinished, k>>

\* lines 260-261: for d in range(n_device): unfinished = [...]
DeviceNext ==
    /\ UNCHANGED <<outerVars, facadeVars, tinyVars, auxVars>>
    /\ pc = "device"
    /\ IF d < n_device
       THEN /\ unfinished' = InitUnfinished(i, d_batch_size)
            /\ loop' = 0
            /\ len_sum' = 0 /\ n_carried' = 0
            /\ pc' = "loop"
       ELSE /\ pc' = "assert"
            /\ UNCHANGED <<unfinished, loop, histVars>>
    /\ UNCHANGED <<configVars, engineVars, n_device, d_batch_size, probs,
                   sources, max_loop, keep_cls, i, d, source,
                   next_unfinished, k, written>>

\* lines 263-265: for loop in range(max_loop): source, next_unfinished
LoopNext ==
    /\ UNCHANGED <<outerVars, facadeVars, tinyVars, auxVars>>
    /\ pc = "loop"
    /\ IF loop < max_loop
       THEN IF loop < Len(keep_cls)
            THEN /\ source' = At(keep_cls, loop)
                 /\ next_unfinished' = <<>>
                 /\ k' = 0
                 /\ len_sum' = len_sum + Len(unfinished)
                 /\ pc' = "inner"
                 /\ UNCHANGED d
            ELSE /\ pc' = "IndexError_keep_cls"
                 /\ UNCHANGED <<source, next_unfinished, k, d, len_sum>>
       ELSE /\ d' = d + 1
            /\ pc' = "device"
            /\ UNCHANGED <<source, next_unfinished, k, len_sum>>
    /\ UNCHANGED <<configVars, engineVars, n_device, d_batch_size, probs,
                   sources, max_loop, keep_cls, i, unfinished, loop, written,
                   n_carried>>

\* lines 267-275: for k in range(len(unfinished)): resolve or carry;
\* after the last k, unfinished = next_unfinished
InnerNext ==
    /\ UNCHANGED <<outerVars, facadeVars, tinyVars, auxVars>>
    /\ pc = "inner"
    /\ IF k >= Len(unfinished)
       THEN /\ unfinished' = next_unfinished
            /\ loop' = loop + 1
            /\ pc' = "loop"
            /\ UNCHANGED <<probs, sources, written, next_unfinished, i, k,
                           n_carried>>
       ELSE IF i >= Len(batch_probs)
       THEN /\ pc' = "IndexError_batch_probs"
            /\ UNCHANGED <<probs, sources, written, next_unfinished, i, k,
                           unfinished, loop, n_carried>>
       ELSE IF Resolves(At(batch_probs, i), loop, max_loop, _speed,
                        label_size)
       THEN IF At(unfinished, k) >= batch_size
            THEN /\ pc' = "IndexError_probs"
                 /\ UNCHANGED <<probs, sources, written, next_unfinished,
                                i, k, unfinished, loop, n_carried>>
            ELSE /\ probs' = [probs EXCEPT ![At(unfinished, k) + 1] =
                                 At(batch_probs, i)]
                 /\ sources' = [sources EXCEPT ![At(unfinished, k) + 1] =
                                   source]
                 /\ written' = [written EXCEPT ![At(unfinished, k) + 1] =
                                   @ + 1]
                 /\ i' = i + 1
                 /\ k' = k + 1
                 /\ UNCHANGED <<pc, next_unfinished, unfinished, loop,
                                n_carried>>
       ELSE /\ next_unfinished' = Append(next_unfinished, At(unfinished, k))
            /\ n_carried' = n_carried + 1
            /\ i' = i + 1
            /\ k' = k + 1
            /\ UNCHANGED <<pc, probs, sources, written, unfinished, loop>>
    /\ UNCHANGED <<configVars, engineVars, n_device, d_batch_size, max_loop,
                   keep_cls, d, source, len_sum>>

\* AssertReturn with the assertion dropped
AssertReturn_NoAssert ==
    /\ UNCHANGED <<outerVars, facadeVars, tinyVars, auxVars>>
    /\ pc = "assert"
    /\ pc' = "return"
    /\ UNCHANGED <<configVars, engineVars, localVars, written, histVars>>

\* lines 276-277: assert i == len(batch_probs); return probs, sources
AssertReturn ==
    /\ UNCHANGED <<outerVars, facadeVars, tinyVars, auxVars>>
    /\ pc = "assert"
    /\ pc' = IF i = Len(batch_probs) THEN "return" ELSE "AssertionError"
    /\ UNCHANGED <<configVars, engineVars, localVars, written, histVars>>

Next ==
    \/ PermutateEnter
    \/ DeviceNext
    \/ LoopNext
    \/ InnerNext
    \/ AssertReturn

Spec == Init /\ [][Next]_vars

----------------------------------------------------------------------------
(* _permutate on any stream, whether or not a cascade produced it *)

MaxStream == 4

\* the sequences over S of length at most n
BoundedSeq(S, n) == UNION {[1..m -> S] : m \in 0..n}

InitStream ==
    /\ _gpu_ids \in GpuIdLists
    /\ batch_size \in {bs \in 1..MaxBatch : bs % NDevice(_gpu_ids) = 0}
    /\ label_size = 2
    /\ num_hidden_layers \in 1..MaxLayers
    /\ _ignore_cls \in IgnoreLists(num_hidden_layers)
    /\ _speed \in Speeds
    /\ truth = <<>>
    /\ batch_probs \in BoundedSeq(Vectors, MaxStream)
    /\ pc = "call"
    /\ InitLocals
    /\ InitOuter
    /\ InitFacade
    /\ InitTiny
    /\ InitAux

SpecStream == InitStream /\ [][Next]_vars

----------------------------------------------------------------------------
(* predict / score / export: the facade attributes and the graph cache *)

\* an ignore list as the caller writes it: '0,2' is <<"0", ",", "2">>
Digits == <<"0", "1", "2", "3", "4", "5", "6", "7", "8", "9">>

\* int(token) for a one-digit token
ToInt(token) == (CHOOSE j \in 1..Len(Digits) : Digits[j] = token) - 1

\* str(n) for a one-digit n
ToStr(n) == Digits[n + 1]

\* ','.join(str(x) for x in list)
RECURSIVE Join(_)
Join(list) ==
    IF list = <<>> THEN <<>>
    ELSE IF Len(list) = 1 THEN <<ToStr(list[1])>>
    ELSE <<ToStr(list[1]), ",">> \o Join(Tail(list))

\* convert_ignore_cls (uf/modeling/fast_bert.py, outside the files modelled
\* here): the comma-separated integers of the argument, as a list of
\* integers in the order written; the empty argument gives the empty list
convert_ignore_cls(arg) ==
    LET tokens == SelectSeq(arg, LAMBDA c : c # ",")
    IN  [j \in 1..Len(tokens) |-> ToInt(tokens[j])]

\* the lists over a set of heads, in any order, without repetition
Orderings(S) ==
    {l \in BoundedSeq(S, Cardinality(S)) :
        \A j1, j2 \in 1..Len(l) : j1 # j2 => l[j1] # l[j2]}

\* the ignore_cls arguments a caller may pass
IgnoreArgs(n_layers) == {Join(l) : l \in Orderings(0..n_layers)}

\* _forward handing the stored ignore list to the cascade in training too
ForwardConfig_KeepsIgnore(is_training, ignore, speed) ==
    [speed |-> speed, ignore_cls |-> ignore]

\* the (ignore list, speed) pair a graph is built from: _forward reads
\* self._speed and, outside training, self._ignore_cls
ForwardConfig(is_training, ignore, speed) ==
    [speed |-> speed, ignore_cls |-> IF is_training THEN <<>> ELSE ignore]

\* the state after __init__: lines 46-59
InitFacadeSpec ==
    /\ _gpu_ids \in GpuIdLists
    /\ batch_size = 0
    /\ label_size = 2
    /\ num_hidden_layers \in 1..MaxLayers
    /\ _ignore_cls = <<0>>
    /\ _speed = 10
    /\ truth = <<>> /\ batch_probs = <<>>
    /\ pc = "idle"
    /\ InitLocals
    /\ InitOuter
    /\ InitFacade
    /\ InitTiny
    /\ InitAux

\* lines 88-96, 120-128, 150-158: parse ignore_cls, store what changed and
\* drop the cached graph
StoreConfig_SpeedKeepsGraph(op, arg_speed, arg_ignore_cls) ==
    LET ignore_cls == convert_ignore_cls(arg_ignore_cls)
    IN  /\ _ignore_cls' = ignore_cls
        /\ _speed' = arg_speed
        /\ _graph_mode' = IF ignore_cls # _ignore_cls
                          THEN "None" ELSE _graph_mode
        /\ call' = Some([op |-> op, speed |-> arg_speed,
                         ignore_cls |-> ignore_cls,
                         changed |-> (ignore_cls # _ignore_cls
                                        \/ arg_speed # _speed)])
        /\ pc' = "delegate"

\* StoreConfig with _graph_mode reset on every call
StoreConfig_AlwaysReset(op, arg_speed, arg_ignore_cls) ==
    LET ignore_cls == convert_ignore_cls(arg_ignore_cls)
    IN  /\ _ignore_cls' = IF ignore_cls # _ignore_cls
                          THEN ignore_cls ELSE _ignore_cls
        /\ _speed' = IF arg_speed # _speed THEN arg_speed ELSE _speed
        /\ _graph_mode' = "None"
        /\ call' = Some([op |-> op, speed |-> arg_speed,
                         ignore_cls |-> ignore_cls,
                         changed |-> (ignore_cls # _ignore_cls
                                        \/ arg_speed # _speed)])
        /\ pc' = "delegate"

StoreConfig(op, arg_speed, arg_ignore_cls) ==
    LET ignore_cls == convert_ignore_cls(arg_ignore_cls)
    IN  /\ _ignore_cls' = IF ignore_cls # _ignore_cls
                          THEN ignore_cls ELSE _ignore_cls
        /\ _speed' = IF arg_speed # _speed THEN arg_speed ELSE _speed
        /\ _graph_mode' = IF ignore_cls # _ignore_cls \/ arg_speed # _speed
                          THEN "None" ELSE _graph_mode
        /\ call' = Some([op |-> op, speed |-> arg_speed,
                         ignore_cls |-> ignore_cls,
                         changed |-> (ignore_cls # _ignore_cls
                                        \/ arg_speed # _speed)])
        /\ pc' = "delegate"

facadeFrame ==
    UNCHANGED <<_gpu_ids, batch_size, label_size, num_hidden_layers,
                engineVars, localVars, written, histVars, outerVars,
                auxVars, tinyVars>>

\* predict, lines 88-96 (up to the call of the base class)
predict ==
    /\ pc = "idle"
    /\ \E speed \in Speeds, ignore_cls \in IgnoreArgs(num_hidden_layers) :
          StoreConfig("predict", speed, ignore_cls)
    /\ UNCHANGED <<graph_config, last_forward>>
    /\ facadeFrame

\* score, lines 120-128 (up to the call of the base class)
score ==
    /\ pc = "idle"
    /\ \E speed \in Speeds, ignore_cls \in IgnoreArgs(num_hidden_layers) :
          StoreConfig("score", speed, ignore_cls)
    /\ UNCHANGED <<graph_config, last_forward>>
    /\ facadeFrame

\* export, lines 150-158 (up to the call of the base class)
export ==
    /\ pc = "idle"
    /\ \E speed \in Speeds, ignore_cls \in IgnoreArgs(num_hidden_layers) :
          StoreConfig("export", speed, ignore_cls)
    /\ UNCHANGED <<graph_config, last_forward>>
    /\ facadeFrame

\* the base operation (uf/application/base.py and uf/core.py, outside the
\* files modelled here; specification section 4.4): the graph is built by
\* _forward when _graph_mode is None and is reused otherwise; the forward
\* pass then runs on it
BaseOperation ==
    /\ pc = "delegate"
    /\ graph_config' = IF _graph_mode = "None"
                       THEN Some(ForwardConfig(FALSE, _ignore_cls, _speed))
                       ELSE graph_config
    /\ _graph_mode' = "infer"
    /\ last_forward' = Some([op |-> call[1].op, graph |-> graph_config'[1],
                             ignore_cls |-> _ignore_cls, speed |-> _speed])
    /\ pc' = "idle"
    /\ UNCHANGED <<_ignore_cls, _speed, call>>
    /\ facadeFrame

NextFacade ==
    \/ predict
    \/ score
    \/ export
    \/ BaseOperation

SpecFacade == InitFacadeSpec /\ [][NextFacade]_vars

----------------------------------------------------------------------------
(* _get_predict_outputs / _get_score_outputs: the batches of one call *)

MaxInputs == 3

\* the configurations explored for the batch loop
BatchLayers == {1}
BatchSpeeds == {100}

\* the number of batches the engine runs for n inputs
NBatches(n, size) == (n + size - 1) \div size

\* the rows of a list of arrays, one after the other (np.vstack / np.hstack)
RECURSIVE Stack(_)
Stack(arrays) ==
    IF arrays = <<>> THEN <<>> ELSE Head(arrays) \o Stack(Tail(arrays))

\* a[:n]
Take(a, n) == SubSeq(a, 1, IF n < Len(a) THEN n ELSE Len(a))

\* _transform with its first row dropped from the result
_transform_DropFirst(arrays, n) == Tail(Take(Stack(arrays), n + 1))

\* lines 346-349: np.vstack(output_arrays)[:n_inputs], or np.hstack for
\* one-dimensional arrays
_transform(arrays, n) == Take(Stack(arrays), n)

\* utils.transform(output_arrays, n_inputs) (uf/utils.py, outside the files
\* modelled here): concatenate and truncate to n_inputs, section 4.3
transform(arrays, n) == Take(Stack(arrays), n)

\* the state when the forward passes of one call are over: convert has set
\* batch_size (lines 183-186), and the engine has run every batch, padded
\* to batch_size rows
InitBatches ==
    /\ _gpu_ids \in GpuIdLists
    /\ n_inputs \in 1..MaxInputs
    /\ batch_size \in {bs \in 1..MaxBatch :
                         /\ bs % NDevice(_gpu_ids) = 0
                         /\ \/ bs <= n_inputs
                            \/ bs = Max2(n_inputs, Len(_gpu_ids))}
    /\ label_size = 2
    /\ num_hidden_layers \in BatchLayers
    /\ _ignore_cls \in IgnoreLists(num_hidden_layers)
    /\ _speed \in BatchSpeeds
    /\ truths \in [1..NBatches(n_inputs, batch_size) ->
                     [1..batch_size ->
                        Rows(num_hidden_layers, _ignore_cls, _speed,
                             label_size)]]
    /\ output_arrays =
          [j \in 1..NBatches(n_inputs, batch_size) |->
              EngineStream(truths[j], 0, NDevice(_gpu_ids),
                           batch_size \div NDevice(_gpu_ids),
                           KeepCls(num_hidden_layers, _ignore_cls),
                           _speed, label_size)]
    /\ truth = <<>> /\ batch_probs = <<>>
    /\ batch_idx = 0
    /\ probs_arrays = <<>> /\ sources_arrays = <<>>
    /\ out_probs = <<>> /\ out_sources = <<>>
    /\ pc = "outputs"
    /\ InitLocals
    /\ InitFacade
    /\ InitTiny
    /\ InitAux

\* lines 280-281 (352): probs_arrays = [], sources_arrays = []
OutputsEnter ==
    /\ pc = "outputs"
    /\ probs_arrays' = <<>>
    /\ sources_arrays' = <<>>
    /\ batch_idx' = 0
    /\ pc' = "batch"
    /\ UNCHANGED <<configVars, engineVars, localVars, written, histVars,
                   facadeVars, tinyVars, auxVars, n_inputs, truths, output_arrays,
                   out_probs, out_sources>>

\* line 282 (353): for batch_probs in output_arrays[0]
BatchNext ==
    /\ pc = "batch"
    /\ IF batch_idx < Len(output_arrays)
       THEN /\ batch_probs' = At(output_arrays, batch_idx)
            /\ truth' = At(truths, batch_idx)
            /\ pc' = "call"
       ELSE /\ pc' = "transform"
            /\ UNCHANGED <<batch_probs, truth>>
    /\ UNCHANGED <<configVars, localVars, written, histVars, facadeVars, tinyVars,
                   auxVars, outerVars>>

\* lines 283-285 (354-355): the table _permutate returned is appended
BatchCollect ==
    /\ pc = "return"
    /\ probs_arrays' = Append(probs_arrays, probs)
    /\ sources_arrays' = Append(sources_arrays, sources)
    /\ batch_idx' = batch_idx + 1
    /\ pc' = "batch"
    /\ UNCHANGED <<configVars, engineVars, localVars, written, histVars,
                   facadeVars, tinyVars, auxVars, n_inputs, truths, output_arrays,
                   out_probs, out_sources>>

\* lines 286-287: probs and sources of _get_predict_outputs
PredictTransform ==
    /\ pc = "transform"
    /\ out_probs' = transform(probs_arrays, n_inputs)
    /\ out_sources' = transform(sources_arrays, n_inputs)
    /\ pc' = "predict_outputs"
    /\ UNCHANGED <<configVars, engineVars, localVars, written, histVars,
                   facadeVars, tinyVars, auxVars, n_inputs, truths, output_arrays,
                   batch_idx, probs_arrays,
                   sources_arrays>>

\* line 356: probs of _get_score_outputs (the sources are not kept)
ScoreTransform ==
    /\ pc = "transform"
    /\ out_probs' = _transform(probs_arrays, n_inputs)
    /\ pc' = "score_outputs"
    /\ UNCHANGED <<configVars, engineVars, localVars, written, histVars,
                   facadeVars, tinyVars, auxVars, n_inputs, truths, output_arrays,
                   batch_idx, probs_arrays,
                   sources_arrays, out_sources>>

NextBatches ==
    \/ OutputsEnter
    \/ BatchNext
    \/ PermutateEnter
    \/ DeviceNext
    \/ LoopNext
    \/ InnerNext
    \/ AssertReturn
    \/ BatchCollect
    \/ PredictTransform
    \/ ScoreTransform

SpecBatches == InitBatches /\ [][NextBatches]_vars

----------------------------------------------------------------------------
(* Positions of the run *)

Raised == pc \in {"IndexError_keep_cls", "IndexError_batch_probs",
                  "IndexError_probs", "AssertionError"}
Returned == pc = "return"
Finished == Returned \/ Raised

----------------------------------------------------------------------------
(* Three _permutate calls in a row on one object: the first and the third   *)
(* with the same attributes and stream, the second with any others.  The    *)
(* locals of a call are whatever the call before left; only the statements  *)
(* of _permutate give them their values.                                    *)

\* batch sizes and layer counts of the calls
CallBatches == {1, 2}
CallLayers == {1}

\* what a call gives its caller: the two tables, or the exception
Outcome == IF Returned THEN <<pc, probs, sources>> ELSE <<pc>>

InitCalls ==
    /\ _gpu_ids \in GpuIdLists
    /\ batch_size \in {bs \in CallBatches : bs % NDevice(_gpu_ids) = 0}
    /\ label_size = 2
    /\ num_hidden_layers \in CallLayers
    /\ _ignore_cls \in IgnoreLists(num_hidden_layers)
    /\ _speed \in Speeds
    /\ truth \in [1..batch_size ->
                    Rows(num_hidden_layers, _ignore_cls, _speed, label_size)]
    /\ batch_probs = EngineStream(truth, 0, NDevice(_gpu_ids),
                                  batch_size \div NDevice(_gpu_ids),
                                  KeepCls(num_hidden_layers, _ignore_cls),
                                  _speed, label_size)
    /\ pc = "call"
    /\ InitLocals
    /\ InitOuter
    /\ InitFacade
    /\ InitTiny
    /\ call_no = 1
    /\ saved_input = Some([batch_size |-> batch_size,
                           _ignore_cls |-> _ignore_cls, _speed |-> _speed,
                           truth |-> truth, batch_probs |-> batch_probs])
    /\ first_outcome = None
    /\ args = None /\ result = None

\* lines 282-283: the caller calls _permutate again.  After the first call
\* the attributes and the stream are any others; after the second they are
\* those of the first call again.
CallAgain ==
    /\ Finished
    /\ call_no < 3
    /\ IF call_no = 1
       THEN /\ first_outcome' = Some(Outcome)
            /\ \E bs \in {n \in CallBatches : n % NDevice(_gpu_ids) = 0},
                  ignore \in IgnoreLists(num_hidden_layers),
                  speed \in Speeds :
                  \E table \in [1..bs -> Rows(num_hidden_layers, ignore,
                                              speed, label_size)] :
                     /\ batch_size' = bs
                     /\ _ignore_cls' = ignore
                     /\ _speed' = speed
                     /\ truth' = table
                     /\ batch_probs' =
                            EngineStream(table, 0, NDevice(_gpu_ids),
                                         bs \div NDevice(_gpu_ids),
                                         KeepCls(num_hidden_layers, ignore),
                                         speed, label_size)
       ELSE /\ batch_size' = saved_input[1].batch_size
            /\ _ignore_cls' = saved_input[1]._ignore_cls
            /\ _speed' = saved_input[1]._speed
            /\ truth' = saved_input[1].truth
            /\ batch_probs' = saved_input[1].batch_probs
            /\ UNCHANGED first_outcome
    /\ call_no' = call_no + 1
    /\ pc' = "call"
    /\ UNCHANGED <<_gpu_ids, label_size, num_hidden_layers, localVars,
                   written, histVars, outerVars, facadeVars, tinyVars, saved_input,
                   args, result>>

NextCalls ==
    \/ PermutateEnter
    \/ DeviceNext
    \/ LoopNext
    \/ InnerNext
    \/ AssertReturn
    \/ CallAgain

SpecCalls == InitCalls /\ [][NextCalls]_vars

----------------------------------------------------------------------------
(* max_loop and keep_cls under two ignore lists *)

\* everything but pc and result is left alone
fnFrame ==
    UNCHANGED <<configVars, engineVars, localVars, written, histVars,
                outerVars, facadeVars, tinyVars, call_no, saved_input, first_outcome,
                args>>

\* the attributes of an object on which no call is under way
InitObject ==
    /\ _gpu_ids = <<>>
    /\ batch_size = 0
    /\ label_size = 2
    /\ _ignore_cls = <<0>>
    /\ _speed = 10
    /\ truth = <<>> /\ batch_probs = <<>>
    /\ InitLocals
    /\ InitOuter
    /\ InitFacade
    /\ InitTiny
    /\ call_no = 0 /\ saved_input = None /\ first_outcome = None

\* two ignore lists as convert_ignore_cls leaves them: heads of 0..L in the
\* order given, none given twice
InitIgnore ==
    /\ InitObject
    /\ num_hidden_layers \in 1..MaxLayers
    /\ \E A \in Orderings(0..num_hidden_layers),
          B \in Orderings(0..num_hidden_layers) :
          args = Some([A |-> A, B |-> B])
    /\ result = None
    /\ pc = "args"

\* lines 252-257 under each of the two lists
ApplyIgnore ==
    /\ pc = "args"
    /\ result' = Some([max_loop_A |-> MaxLoop(num_hidden_layers, args[1].A),
                       keep_cls_A |-> KeepCls(num_hidden_layers, args[1].A),
                       max_loop_B |-> MaxLoop(num_hidden_layers, args[1].B),
                       keep_cls_B |-> KeepCls(num_hidden_layers, args[1].B)])
    /\ pc' = "value"
    /\ fnFrame

NextIgnore == ApplyIgnore

SpecIgnore == InitIgnore /\ [][NextIgnore]_vars

----------------------------------------------------------------------------
(* One call on four examples whose head-0 probabilities are 0.9, 0.05,      *)
(* 0.05 and 0.5: one device, L = 2, no head ignored, speed 0.1, two labels  *)

\* the head-0 probability (percent) of examples 0..3
ScenarioHead0 == <<90, 5, 5, 50>>
\* the probabilities (percent) heads 1 and 2 may give
ScenarioLevels == {50, 99}

\* the rows a cascade over heads 0, 1, 2 can give an example whose head-0
\* probability is p0
ScenarioRows(p0, speed, n_labels) ==
    {row \in [1..3 -> {Vec(p) : p \in ScenarioLevels}
                        \cup {Vec(p0), NotComputed}] :
        /\ row[1] = Vec(p0)
        /\ RowOk(row, Range(3), 1, TRUE, speed, n_labels)}

InitScenario ==
    /\ _gpu_ids \in {<<>>, <<0>>}
    /\ batch_size = Len(ScenarioHead0)
    /\ label_size = 2
    /\ num_hidden_layers = 2
    /\ _ignore_cls = <<>>
    /\ _speed = 10
    /\ truth \in {t \in [1..batch_size ->
                            UNION {ScenarioRows(ScenarioHead0[e], _speed,
                                                label_size) :
                                      e \in 1..batch_size}] :
                     /\ \A e \in 1..batch_size :
                           t[e] \in ScenarioRows(ScenarioHead0[e], _speed,
                                                 label_size)
                     \* example 3 stays at or above speed at head 1
                     /\ _uncertainty(TopProb(t[4][2]), label_size)
                           >= SpeedUnits(_speed)}
    /\ batch_probs = EngineStream(truth, 0, NDevice(_gpu_ids),
                                  batch_size \div NDevice(_gpu_ids),
                                  KeepCls(num_hidden_layers, _ignore_cls),
                                  _speed, label_size)
    /\ pc = "call"
    /\ InitLocals
    /\ InitOuter
    /\ InitFacade
    /\ InitTiny
    /\ InitAux

SpecScenario == InitScenario /\ [][Next]_vars

----------------------------------------------------------------------------
(* Construction: FastBERTClassifier, TinyBERTClassifier and                 *)
(* TinyBERTBinaryClassifier, then the operations of the object              *)

Classes == {"FastBERTClassifier", "TinyBERTClassifier",
            "TinyBERTBinaryClassifier"}

\* the label_size arguments a caller may pass; None is the default
LabelSizeArgs == {None, Some(0), Some(2), Some(3)}

\* bool(x) is False for an argument x: None and 0
Falsy(x) == x = None \/ x = Some(0)

\* before __init__: no attribute is set
InitNew ==
    /\ _gpu_ids \in GpuIdLists
    /\ batch_size = 0
    /\ label_size = None
    /\ num_hidden_layers \in 1..MaxLayers
    /\ _ignore_cls = None
    /\ _speed = 0
    /\ truth = <<>> /\ batch_probs = <<>>
    /\ pc = "new"
    /\ InitLocals
    /\ InitOuter
    /\ InitFacade
    /\ InitTiny
    /\ call_no = 0 /\ saved_input = None /\ first_outcome = None
    /\ \E cls \in Classes, size \in LabelSizeArgs :
          args = Some([cls |-> cls, label_size |-> size])
    /\ result = None

\* __init__ with the assertion on label_size dropped
__init___NoAssert ==
    /\ pc = "new"
    /\ batch_size' = 0
    /\ label_size' = IF args[1].label_size = None THEN None
                     ELSE args[1].label_size[1]
    /\ IF args[1].cls = "FastBERTClassifier"
       THEN _ignore_cls' = <<0>> /\ _speed' = 10
       ELSE UNCHANGED <<_ignore_cls, _speed>>
    /\ pc' = IF args[1].cls = "FastBERTClassifier" THEN "idle"
             ELSE "idle_tiny"
    /\ UNCHANGED <<_gpu_ids, num_hidden_layers, engineVars, localVars,
                   written, histVars, outerVars, facadeVars, tinyVars, auxVars>>

\* fast_bert.py lines 46-61, tiny_bert.py lines 48-66 and 192-210: the
\* attributes, then assert label_size
__init__ ==
    /\ pc = "new"
    /\ batch_size' = 0
    /\ label_size' = IF args[1].label_size = None THEN None
                     ELSE args[1].label_size[1]
    /\ IF args[1].cls = "FastBERTClassifier"
       THEN _ignore_cls' = <<0>> /\ _speed' = 10
       ELSE UNCHANGED <<_ignore_cls, _speed>>
    /\ pc' = IF Falsy(args[1].label_size) THEN "AssertionError"
             ELSE IF args[1].cls = "FastBERTClassifier" THEN "idle"
             ELSE "idle_tiny"
    /\ UNCHANGED <<_gpu_ids, num_hidden_layers, engineVars, localVars,
                   written, histVars, outerVars, facadeVars, tinyVars, auxVars>>

\* predict, score or export of a TinyBERT classifier: the operations of the
\* base class, on the object __init__ returned
TinyOperation ==
    /\ pc = "idle_tiny"
    /\ \E op \in {"predict", "score", "export"} :
          /\ call' = Some([op |-> op])
          /\ last_forward' = Some([op |-> op])
    /\ UNCHANGED <<configVars, engineVars, pc, localVars, written, histVars,
                   outerVars, _graph_mode, graph_config, auxVars, tinyVars>>

NextConstruct ==
    \/ __init__
    \/ predict
    \/ score
    \/ export
    \/ BaseOperation
    \/ TinyOperation

SpecConstruct == InitNew /\ [][NextConstruct]_vars

----------------------------------------------------------------------------
(* The test of lines 268-269 on vectors of two and of three classes *)

\* probability vectors (percent) whose largest entry is at any index
TestVectors == {<<99, 1>>, <<1, 99>>, <<90, 10>>, <<10, 90>>, <<50, 50>>,
                <<80, 10, 10>>, <<10, 80, 10>>, <<10, 10, 80>>,
                <<90, 5, 5>>, <<5, 90, 5>>, <<5, 5, 90>>}
\* speed thresholds (percent)
TestSpeeds == {10, 20, 30, 100}
\* (loop, max_loop): the only, the first and the last iteration
TestLoops == {<<0, 1>>, <<0, 2>>, <<1, 2>>}

InitTest ==
    /\ InitObject
    /\ num_hidden_layers \in 1..MaxLayers
    /\ \E vec \in TestVectors, speed \in TestSpeeds, lp \in TestLoops :
          args = Some([vec |-> vec, loop |-> lp[1], max_loop |-> lp[2],
                       speed |-> speed, label_size |-> Len(vec)])
    /\ result = None
    /\ pc = "args"

\* lines 268-269 on one vector
ApplyResolves ==
    /\ pc = "args"
    /\ result' = Some(Resolves(args[1].vec, args[1].loop, args[1].max_loop,
                               args[1].speed, args[1].label_size))
    /\ pc' = "value"
    /\ fnFrame

NextTest == ApplyResolves

SpecTest == InitTest /\ [][NextTest]_vars

----------------------------------------------------------------------------
(* convert: batch_size for an input of n_inputs examples, then the shard    *)
(* size _permutate derives from it                                          *)

\* the batch sizes a caller may ask for, each a multiple of the device count
CallerBatchSizes == 1..8

InitConvert ==
    /\ _gpu_ids \in GpuIdLists
    /\ batch_size \in {bs \in CallerBatchSizes : bs % NDevice(_gpu_ids) = 0}
    /\ label_size = 2
    /\ num_hidden_layers = 1
    /\ _ignore_cls = <<0>>
    /\ _speed = 10
    /\ truth = <<>> /\ batch_probs = <<>>
    /\ InitLocals
    /\ InitOuter
    /\ InitFacade
    /\ InitTiny
    /\ call_no = 0 /\ saved_input = None /\ first_outcome = None
    /\ \E n \in 1..MaxInputs :
          args = Some([n_inputs |-> n, batch_size |-> batch_size])
    /\ result = None
    /\ pc = "convert"

\* lines 183-186: n_inputs = len(input_ids); batch_size is lowered when the
\* input is smaller than a batch
convert ==
    /\ pc = "convert"
    /\ n_inputs' = args[1].n_inputs
    /\ batch_size' = IF args[1].n_inputs < batch_size
                     THEN Max2(args[1].n_inputs, Len(_gpu_ids))
                     ELSE batch_size
    /\ pc' = "call"
    /\ UNCHANGED <<_gpu_ids, label_size, num_hidden_layers, _ignore_cls,
                   _speed, engineVars, localVars, written, histVars,
                   truths, output_arrays, batch_idx, probs_arrays,
                   sources_arrays, out_probs, out_sources, facadeVars, tinyVars,
                   auxVars>>

NextConvert ==
    \/ convert
    \/ PermutateEnter

SpecConvert == InitConvert /\ [][NextConvert]_vars

----------------------------------------------------------------------------
(* XLNet: _cache_mem (uf/modeling/xlnet.py), called once per segment with   *)
(* the memory it returned for the segment before.  A tensor is Some(list    *)
(* of entries along axis 0); an entry is <<segment, position>>.             *)

MaxMemLen   == 3
MaxOut      == 3
MaxMemCalls == 3

\* s[start:] of Python, for any integer start
SliceFrom(s, start) ==
    LET from == IF start < 0 THEN Max2(Len(s) + start, 0)
                ELSE IF start > Len(s) THEN Len(s) ELSE start
    IN  SubSeq(s, from + 1, Len(s))

\* s[:stop] of Python, for any integer stop
SliceTo(s, stop) ==
    LET to == IF stop < 0 THEN Max2(Len(s) + stop, 0)
              ELSE IF stop > Len(s) THEN Len(s) ELSE stop
    IN  SubSeq(s, 1, to)

\* _cache_mem with reuse_len left out of account
_cache_mem_NoReuse(curr_out, prev_mem, mem_len, reuse_len) ==
    IF mem_len = None \/ mem_len = Some(0) THEN None
    ELSE IF prev_mem = None
         THEN Some(SliceFrom(curr_out, 0 - mem_len[1]))
         ELSE Some(SliceFrom(prev_mem[1] \o curr_out, 0 - mem_len[1]))

\* lines 487-500; tf.stop_gradient leaves the values as they are
_cache_mem(curr_out, prev_mem, mem_len, reuse_len) ==
    IF mem_len = None \/ mem_len = Some(0) THEN None
    ELSE LET out == IF reuse_len # None /\ reuse_len[1] > 0
                    THEN SliceTo(curr_out, reuse_len[1])
                    ELSE curr_out
         IN  IF prev_mem = None
             THEN Some(SliceFrom(out, 0 - mem_len[1]))
             ELSE Some(SliceFrom(prev_mem[1] \o out, 0 - mem_len[1]))

\* the run configuration: mem_len and reuse_len are None or a token count
MemLens == {None} \cup {Some(n) : n \in 0..MaxMemLen}
ReuseLens == {None} \cup {Some(n) : n \in 0..MaxOut}

\* before the first segment: the memory is None
InitMem ==
    /\ InitObject
    /\ num_hidden_layers = 1
    /\ \E m \in MemLens, r \in ReuseLens :
          args = Some([mem_len |-> m, reuse_len |-> r,
                       curr_out |-> <<>>, prev_mem |-> None, n_calls |-> 0])
    /\ result = None
    /\ pc = "segment"

\* line 893: new_mems.append(_cache_mem(output_h, mems[i], mem_len,
\* reuse_len)) for a segment of any length, mems[i] being the memory
\* returned for the segment before
CacheMemCall ==
    /\ pc = "segment"
    /\ args[1].n_calls < MaxMemCalls
    /\ \E n \in 0..MaxOut :
          LET curr_out == [j \in 1..n |-> <<args[1].n_calls + 1, j>>]
          IN  /\ result' = _cache_mem(curr_out, result, args[1].mem_len,
                                      args[1].reuse_len)
              /\ args' = Some([args[1] EXCEPT !.curr_out = curr_out,
                                              !.prev_mem = result,
                                              !.n_calls = @ + 1])
    /\ UNCHANGED <<configVars, engineVars, pc, localVars, written, histVars,
                   outerVars, facadeVars, tinyVars, call_no, saved_input,
                   first_outcome>>

NextMem == CacheMemCall

SpecMem == InitMem /\ [][NextMem]_vars

----------------------------------------------------------------------------
(* One _permutate call on a single device *)

InitSingle == Init /\ NDevice(_gpu_ids) = 1

SpecSingle == InitSingle /\ [][Next]_vars

----------------------------------------------------------------------------
(* The _permutate of _get_score_outputs (lines 308-344), as the function    *)
(* from the stream and the attributes to what the call gives.  Its loops    *)
(* are recursions over a record st of the locals probs, sources, i, source  *)
(* and next_unfinished; st.err is "ok" until a statement raises.            *)

\* lines 308-312: _uncertainty of _get_score_outputs
score_uncertainty(prob, n_labels) ==
    LET numer == IF prob < 1 \/ 100 - prob < 1
                 THEN 0
                 ELSE (prob * np_log(prob)
                        + (100 - prob) * np_log(100 - prob)) \div 100
    IN  ((0 - numer) * 10000) \div (0 - np_log_inv(n_labels))

\* ScoreResolves without the forced exit of the last iteration
ScoreResolves_NoForcedExit(vec, loop_, max_loop_, speed, n_labels) ==
    score_uncertainty(At(vec, 0), n_labels) < SpeedUnits(speed)

\* lines 335-336: the test of the inner loop
ScoreResolves(vec, loop_, max_loop_, speed, n_labels) ==
    \/ score_uncertainty(At(vec, 0), n_labels) < SpeedUnits(speed)
    \/ loop_ = max_loop_ - 1

\* lines 334-341: for k in range(len(unfinished))
RECURSIVE ScoreInner(_, _, _, _, _)
ScoreInner(st, unf, k_, loop_, max_loop_) ==
    IF st.err # "ok" \/ k_ >= Len(unf) THEN st
    ELSE IF st.i >= Len(batch_probs)
    THEN [st EXCEPT !.err = "IndexError_batch_probs"]
    ELSE IF ScoreResolves(At(batch_probs, st.i), loop_, max_loop_, _speed,
                          label_size)
    THEN IF At(unf, k_) >= batch_size
         THEN [st EXCEPT !.err = "IndexError_probs"]
         ELSE ScoreInner([st EXCEPT
                             !.probs[At(unf, k_) + 1] = At(batch_probs, st.i),
                             !.sources[At(unf, k_) + 1] = st.source,
                             !.i = @ + 1],
                         unf, k_ + 1, loop_, max_loop_)
    ELSE ScoreInner([st EXCEPT !.next_unfinished = Append(@, At(unf, k_)),
                               !.i = @ + 1],
                    unf, k_ + 1, loop_, max_loop_)

\* lines 330-342: for loop in range(max_loop)
RECURSIVE ScoreLoop(_, _, _, _, _)
ScoreLoop(st, unf, loop_, max_loop_, keep) ==
    IF st.err # "ok" \/ loop_ >= max_loop_ THEN st
    ELSE IF loop_ >= Len(keep)
    THEN [st EXCEPT !.err = "IndexError_keep_cls"]
    ELSE LET done == ScoreInner([st EXCEPT !.source = At(keep, loop_),
                                           !.next_unfinished = <<>>],
                                unf, 0, loop_, max_loop_)
         IN  ScoreLoop(done, done.next_unfinished, loop_ + 1, max_loop_,
                       keep)

\* lines 327-328: for d in range(n_device): unfinished = [k + i ...]
RECURSIVE ScoreDevices(_, _, _, _, _, _)
ScoreDevices(st, d_, n_device_, d_batch_size_, max_loop_, keep) ==
    IF st.err # "ok" \/ d_ >= n_device_ THEN st
    ELSE ScoreDevices(ScoreLoop(st,
                                [j \in 1..d_batch_size_ |-> (j - 1) + st.i],
                                0, max_loop_, keep),
                      d_ + 1, n_device_, d_batch_size_, max_loop_, keep)

\* lines 314-344: the call.  pc is "return" or the exception raised.
score_permutate ==
    LET n_device_ == Max2(Len(_gpu_ids), 1)
        st0  == [probs |-> [p \in 1..batch_size |-> Zeros(label_size)],
                 sources |-> Zeros(batch_size),
                 i |-> 0, source |-> 0, next_unfinished |-> <<>>,
                 err |-> "ok"]
        keep == SelectSeq(Range(num_hidden_layers + 1),
                          LAMBDA cls_idx : ~In(cls_idx, _ignore_cls))
        done == ScoreDevices(st0, 0, n_device_, batch_size \div n_device_,
                             num_hidden_layers + 1 - Len(_ignore_cls), keep)
    IN  [pc |-> IF done.err # "ok" THEN done.err
                ELSE IF done.i = Len(batch_probs) THEN "return"
                ELSE "AssertionError",
         probs |-> done.probs, sources |-> done.sources, i |-> done.i]

\* the two _permutate on one stream: that of _get_predict_outputs runs
\* first, statement by statement; then that of _get_score_outputs is
\* applied to the same stream and attributes
ScorePermutateCall ==
    /\ Finished
    /\ result = None
    /\ result' = Some(score_permutate)
    /\ UNCHANGED <<configVars, engineVars, pc, localVars, written, histVars,
                   outerVars, facadeVars, tinyVars, call_no, saved_input,
                   first_outcome, args>>

NextBoth ==
    \/ PermutateEnter
    \/ DeviceNext
    \/ LoopNext
    \/ InnerNext
    \/ AssertReturn
    \/ ScorePermutateCall

SpecBoth == InitStream /\ [][NextBoth]_vars

----------------------------------------------------------------------------
(* The same examples under two speeds: every kept head has a vector for     *)
(* every example; the cascade and _permutate run under the lower speed,     *)
(* then under the higher one                                                *)

\* speed thresholds (percent); 0 lets no example out early
SpeedLevels == {0, 10, 100}
\* (gpu ids, batch_size): one device with two examples, or two devices
\* with two examples each
SpeedShapes == {<<Range(0), 2>>, <<Range(2), 4>>}
SpeedLayers == {1}

\* a vector at every kept head, none at an ignored head
FullRows(n_layers, ignore) ==
    {row \in [1..(n_layers + 1) -> Vectors \cup {NotComputed}] :
        \A h \in 0..n_layers : (row[h + 1] = NotComputed) <=> In(h, ignore)}

InitSpeed ==
    /\ \E shape \in SpeedShapes :
          _gpu_ids = shape[1] /\ batch_size = shape[2]
    /\ label_size = 2
    /\ num_hidden_layers \in SpeedLayers
    /\ _ignore_cls \in IgnoreLists(num_hidden_layers)
    /\ \E speed1 \in SpeedLevels, speed2 \in SpeedLevels :
          /\ speed1 <= speed2
          /\ _speed = speed1
          /\ saved_input = Some([speed1 |-> speed1, speed2 |-> speed2])
    /\ truth \in [1..batch_size -> FullRows(num_hidden_layers, _ignore_cls)]
    /\ batch_probs = EngineStream(truth, 0, NDevice(_gpu_ids),
                                  batch_size \div NDevice(_gpu_ids),
                                  KeepCls(num_hidden_layers, _ignore_cls),
                                  _speed, label_size)
    /\ pc = "call"
    /\ InitLocals
    /\ InitOuter
    /\ InitFacade
    /\ InitTiny
    /\ call_no = 1
    /\ first_outcome = None
    /\ args = None /\ result = None

\* the call under speed1 is over: the same examples go through the cascade
\* and _permutate under speed2
SpeedAgain ==
    /\ Finished
    /\ call_no = 1
    /\ first_outcome' = Some([pc |-> pc, sources |-> sources, i |-> i,
                              produced |-> Len(batch_probs)])
    /\ _speed' = saved_input[1].speed2
    /\ batch_probs' = EngineStream(truth, 0, NDevice(_gpu_ids),
                                   batch_size \div NDevice(_gpu_ids),
                                   KeepCls(num_hidden_layers, _ignore_cls),
                                   saved_input[1].speed2, label_size)
    /\ call_no' = 2
    /\ pc' = "call"
    /\ UNCHANGED <<_gpu_ids, batch_size, label_size, num_hidden_layers,
                   _ignore_cls, truth, localVars, written, histVars,
                   outerVars, facadeVars, tinyVars, saved_input, args, result>>

NextSpeed ==
    \/ PermutateEnter
    \/ DeviceNext
    \/ LoopNext
    \/ InnerNext
    \/ AssertReturn
    \/ SpeedAgain

SpecSpeed == InitSpeed /\ [][NextSpeed]_vars

----------------------------------------------------------------------------
(* _forward, lines 201-218, on a facade holding any stored pair *)

\* the ignore lists predict, score and export can have stored
StoredIgnoreLists(n_layers) ==
    {convert_ignore_cls(arg) : arg \in IgnoreArgs(n_layers)}

\* a facade between calls, holding a pair stored by __init__ or by an
\* earlier predict, score or export
InitForward ==
    /\ _gpu_ids \in GpuIdLists
    /\ batch_size = 0
    /\ label_size = 2
    /\ num_hidden_layers \in 1..MaxLayers
    /\ _ignore_cls \in StoredIgnoreLists(num_hidden_layers)
    /\ _speed \in Speeds
    /\ truth = <<>> /\ batch_probs = <<>>
    /\ pc = "idle"
    /\ InitLocals
    /\ InitOuter
    /\ InitFacade
    /\ InitTiny
    /\ InitAux

\* lines 201-218: the arguments FastBERTCLSDistillor is constructed with
_forward ==
    /\ pc = "idle"
    /\ result = None
    /\ \E is_training \in BOOLEAN :
          result' = Some([is_training |-> is_training,
                          distillor |-> ForwardConfig(is_training,
                                                      _ignore_cls, _speed)])
    /\ UNCHANGED <<configVars, engineVars, pc, localVars, written, histVars,
                   outerVars, facadeVars, tinyVars, call_no, saved_input,
                   first_outcome, args>>

NextForward == _forward

SpecForward == InitForward /\ [][NextForward]_vars

----------------------------------------------------------------------------
(* to_bert of TinyBERTClassifier and TinyBERTBinaryClassifier:              *)
(* tiny_bert.py lines 78-100 and 222-244                                    *)

\* A string is the sequence of its pieces, so that + is \o; a variable name
\* is the sequence of its scopes, written "a/b/c:0" in the source.
TinyClasses == {"TinyBERTClassifier", "TinyBERTBinaryClassifier"}

\* names a distillation graph holds: the student under tiny/ (modeling
\* lines 68 and 75), the teacher under bert/ and cls/, and the projections
\* of the losses (modeling lines 122 and 173)
VariableNames ==
    {<<"tiny", "bert", "embeddings">>,
     <<"tiny", "cls", "seq_relationship">>,
     <<"bert", "embeddings">>,
     <<"cls", "seq_relationship">>,
     <<"embedding_loss", "dense">>}

SaveDirs == {<<"a">>, <<"b">>}

\* startswith with any name accepted
StartsWithTiny_Always(name) == TRUE

\* var.name.startswith('tiny/'), line 94
StartsWithTiny(name) == Len(name) >= 2 /\ name[1] = "tiny"

\* var.name.replace('tiny/', '')[:-2], line 95: every scope "tiny" is
\* dropped, and so is the ":0" at the end
CheckpointKey(name) ==
    SelectSeq(SubSeq(name, 1, Len(name) - 1), LAMBDA scope : scope # "tiny")
        \o <<name[Len(name)]>>

\* lines 92-95: the variables to save, under their checkpoint keys (the
\* keys of VariableNames are distinct, so that no entry replaces another)
AssignmentMap(variables) ==
    LET kept == {v \in variables : StartsWithTiny(v)}
    IN  [key \in {CheckpointKey(v) : v \in kept} |->
            CHOOSE v \in kept : CheckpointKey(v) = key]

\* the files after one more is written at path
WriteFile(fs, path, content) ==
    [q \in DOMAIN fs \cup {path} |-> IF q = path THEN content ELSE fs[q]]

\* a classifier after __init__ and any number of base-class operations:
\* its graph built or not, with the variables of that graph
InitToBert ==
    /\ _gpu_ids = <<0>>
    /\ batch_size = 0
    /\ label_size = 2
    /\ num_hidden_layers = 1
    /\ _ignore_cls = None
    /\ _speed = 0
    /\ truth = <<>> /\ batch_probs = <<>>
    /\ pc = "idle_tiny"
    /\ InitLocals
    /\ InitOuter
    /\ InitFacade
    /\ call_no = 0 /\ saved_input = None /\ first_outcome = None
    /\ \E cls \in TinyClasses : args = Some([cls |-> cls])
    /\ result = None
    /\ _graph_built \in BOOLEAN
    /\ init_checkpoint \in {None, Some(<<"pretrained", "/bert_model.ckpt">>)}
    /\ global_variables \in IF _graph_built THEN SUBSET VariableNames
                             ELSE {{}}
    /\ files = <<>>

\* to_bert, lines 78-100 and 222-244
to_bert ==
    /\ pc = "idle_tiny"
    /\ \E save_dir \in SaveDirs :
          /\ call' = Some([op |-> "to_bert", save_dir |-> save_dir])
          /\ IF ~_graph_built
             THEN /\ pc' = "ValueError"
                  /\ UNCHANGED <<init_checkpoint, files>>
             ELSE /\ init_checkpoint' = Some(save_dir \o <<"/bert_model.ckpt">>)
                  /\ files' =
                        WriteFile(
                          WriteFile(
                            WriteFile(files, save_dir, "directory"),
                            init_checkpoint'[1],
                            AssignmentMap(global_variables)),
                          save_dir \o <<"/bert_config.json">>,
                          "student_config")
                  /\ pc' = "idle_tiny"
    /\ UNCHANGED <<configVars, engineVars, localVars, written, histVars,
                   outerVars, _graph_mode, graph_config, last_forward,
                   auxVars, _graph_built, global_variables>>

NextToBert == to_bert

SpecToBert == InitToBert /\ [][NextToBert]_vars

----------------------------------------------------------------------------
(* _permutate on any list of integers stored as _ignore_cls *)

\* lists convert_ignore_cls can give that IgnoreLists leaves out: entries
\* repeated, entries above the last head, and more entries than heads
WildIgnoreLists(n_layers) ==
    BoundedSeq(0..(n_layers + 1), 2) \cup {Zeros(n_layers + 2)}

HeadVectors == {Vec(1), Vec(50)}

InitHeads ==
    /\ _gpu_ids \in GpuIdLists
    /\ batch_size \in {bs \in 1..MaxBatch : bs % NDevice(_gpu_ids) = 0}
    /\ label_size = 2
    /\ num_hidden_layers \in 1..MaxLayers
    /\ _ignore_cls \in WildIgnoreLists(num_hidden_layers)
    /\ _speed \in Speeds
    /\ truth = <<>>
    /\ batch_probs \in BoundedSeq(HeadVectors, MaxStream)
    /\ pc = "call"
    /\ InitLocals
    /\ InitOuter
    /\ InitFacade
    /\ InitTiny
    /\ InitAux

SpecHeads == InitHeads /\ [][Next]_vars

----------------------------------------------------------------------------
(* Reference values for one _permutate call *)

\* the kept heads, from the attributes the call reads
KeptHeads == KeepCls(num_hidden_layers, _ignore_cls)

\* the head whose vector example e (an original position) must end with:
\* the earliest kept head whose vector for e has uncertainty below speed,
\* or the last kept head when there is none
ExitHead(table, e) ==
    LET keep == KeptHeads
        below == {j \in 1..Len(keep) :
                     /\ table[e + 1][keep[j] + 1] # NotComputed
                     /\ _uncertainty(TopProb(table[e + 1][keep[j] + 1]),
                                     label_size) < SpeedUnits(_speed)}
    IN  IF below = {} THEN keep[Len(keep)]
        ELSE keep[CHOOSE j \in below : \A j2 \in below : j <= j2]

Positions == 0..(batch_size - 1)

----------------------------------------------------------------------------
(* Claims C1 - C8: one _permutate call on an engine-produced stream *)

\* C1 (coverage): when at least one head is kept, a call of _permutate, for
\* any device count, ends with every original position 0..batch_size-1
\* assigned exactly once: none twice, none left at its zero initial value.
C1_Coverage ==
    (Finished /\ Len(KeptHeads) >= 1) =>
        \A p \in Positions : written[p + 1] = 1

\* C2 (inversion): _permutate returns, for each original position e, the
\* vector of the earliest kept head at which e's uncertainty is below speed
\* (or of the last kept head), and sources[e] is that head.
C2_Inversion ==
    (Finished /\ Len(KeptHeads) >= 1) =>
        /\ Returned
        /\ \A e \in Positions :
              /\ sources[e + 1] = ExitHead(truth, e)
              /\ probs[e + 1] = truth[e + 1][ExitHead(truth, e) + 1]

\* C3 (consumption conservation): on a stream produced by the cascade
\* schedule, _permutate consumes every element of batch_probs, so that on
\* exit i equals len(batch_probs), and the final assertion never fails.
C3_Conservation ==
    Finished => (i = Len(batch_probs) /\ pc # "AssertionError")

\* C5 (totality): on every valid input _permutate ends by returning a
\* table; it never raises.
C5_Totality ==
    ~Raised

\* C6 (forced exit, terminal state): nothing is carried over at iteration
\* max_loop - 1, and once the iterations of a shard are over (after max_loop
\* of them) its unfinished list is empty.
C6_ForcedExit ==
    /\ (pc = "inner" /\ loop = max_loop - 1) => next_unfinished = <<>>
    /\ (pc = "loop" /\ loop >= max_loop) => unfinished = <<>>

\* C7 (source membership): in the table _permutate returns, sources[p] is a
\* kept head (a head of 0..L outside the ignore list) for every position p.
C7_SourceMembership ==
    Returned => \A p \in Positions : In(sources[p + 1], KeptHeads)

\* C8 (ignoring every head is rejected): with every head of 0..L ignored
\* (max_loop <= 0) the call fails; it never returns a result table.
C8_AllIgnoredRejected ==
    ~(Returned /\ MaxLoop(num_hidden_layers, _ignore_cls) <= 0)

----------------------------------------------------------------------------
(* Claim C4: _permutate on a stream of the wrong length (SpecStream) *)

\* the run ended with the stream and the replay disagreeing on the count:
\* the replay wanted a vector past the end of the stream (too short), or it
\* reached the assertion with vectors left over (too long)
CountMismatch ==
    \/ pc = "IndexError_batch_probs"
    \/ (pc \in {"return", "AssertionError"} /\ i # Len(batch_probs))

\* C4 as stated: whenever the length of batch_probs differs from the number
\* of vectors the replay consumes, _permutate ends in an assertion failure.
C4_MismatchIsAssertion ==
    CountMismatch => pc = "AssertionError"

\* C4 as amended: on a count mismatch _permutate never returns a table; the
\* assertion fails only when the replay ran to the end with vectors left
\* over, and a stream that runs out ends in an IndexError raised by
\* batch_probs[i], with every vector of the stream already consumed.
C4_MismatchIsFatal ==
    /\ Returned => i = Len(batch_probs)
    /\ CountMismatch => Raised
    /\ pc = "AssertionError" => i < Len(batch_probs)
    /\ pc = "IndexError_batch_probs" => i = Len(batch_probs)

\* a stream that ran out after some of its vectors were consumed and
\* written: the run ended in the IndexError of batch_probs[i]
C4_Witness ==
    /\ pc = "IndexError_batch_probs"
    /\ i = Len(batch_probs)
    /\ i >= 1
    /\ written # Zeros(batch_size)

----------------------------------------------------------------------------
(* Claim C9: the graph cache over predict / score / export (SpecFacade) *)

\* C9 (cache invalidation): when a call reaches its base operation the
\* facade holds the call's parsed ignore list and speed, _graph_mode is None
\* if either differed from what was stored, a graph still cached was built
\* for the stored pair, and every forward pass ran on a graph built for the
\* pair stored at that time.
C9_CacheInvalidation ==
    /\ pc = "delegate" =>
          /\ _ignore_cls = call[1].ignore_cls
          /\ _speed = call[1].speed
          /\ call[1].changed => _graph_mode = "None"
    /\ _graph_mode # "None" =>
          graph_config = Some(ForwardConfig(FALSE, _ignore_cls, _speed))
    /\ last_forward # None =>
          last_forward[1].graph =
              ForwardConfig(FALSE, last_forward[1].ignore_cls,
                            last_forward[1].speed)

\* a forward pass that ran after a call changed only the speed while a graph
\* was cached
C9_Witness ==
    /\ pc = "delegate"
    /\ call[1].changed
    /\ graph_config # None
    /\ graph_config[1].ignore_cls = _ignore_cls
    /\ graph_config[1].speed # _speed

----------------------------------------------------------------------------
(* Claim C10: concatenation and truncation to n_inputs (SpecBatches) *)

\* the batch and the row within it that hold input j
BatchOf(j) == j \div batch_size
RowOf(j) == j % batch_size

----------------------------------------------------------------------------
(* Claim C11: the same call twice, with another call in between (SpecCalls) *)

\* C11: a call of _permutate with the attributes and the stream of an
\* earlier call gives its caller what the earlier call gave - the same probs
\* and sources tables, or the same exception - whatever call was made
\* between the two.
C11_Determinism ==
    (call_no = 3 /\ Finished) => Outcome = first_outcome[1]

\* the third call returned tables with a row resolved by a head other than
\* head 0, after two calls that left their own tables behind
C11_Witness ==
    /\ call_no = 3
    /\ Returned
    /\ first_outcome # None
    /\ \E p \in 1..batch_size : sources[p] # 0

----------------------------------------------------------------------------
(* Claim C12: a larger ignore list (SpecIgnore) *)

\* s is in strictly ascending order
Ascending(s) == \A j1, j2 \in 1..Len(s) : j1 < j2 => s[j1] < s[j2]

\* C12: for ignore sets A and B within 0..L with A a proper subset of B,
\* max_loop under B is strictly smaller than under A, and keep_cls under B
\* is keep_cls under A without exactly the heads of B minus A, the other
\* heads in the same ascending order.
C12_IgnoreSetEffect ==
    (/\ pc = "value"
     /\ Elems(args[1].A) \subseteq Elems(args[1].B)
     /\ Elems(args[1].A) # Elems(args[1].B))
    => LET r == result[1]
           gone == Elems(args[1].B) \ Elems(args[1].A)
       IN  /\ r.max_loop_B < r.max_loop_A
           /\ r.max_loop_A - r.max_loop_B = Cardinality(gone)
           /\ r.keep_cls_B = SelectSeq(r.keep_cls_A, LAMBDA h : h \notin gone)
           /\ Elems(r.keep_cls_A) \ Elems(r.keep_cls_B) = gone
           /\ Ascending(r.keep_cls_A) /\ Ascending(r.keep_cls_B)

\* B adds heads, the deepest among them, to a non-empty A, is given out of
\* order, and leaves a head kept
C12_Witness ==
    /\ pc = "value"
    /\ Elems(args[1].A) \subseteq Elems(args[1].B)
    /\ Cardinality(Elems(args[1].B) \ Elems(args[1].A)) >= 1
    /\ args[1].A # <<>>
    /\ In(num_hidden_layers, args[1].B)
    /\ ~In(num_hidden_layers, args[1].A)
    /\ ~Ascending(args[1].B)
    /\ result[1].keep_cls_B # <<>>

----------------------------------------------------------------------------
(* Claim C13: all heads but one ignored (Spec) *)

----------------------------------------------------------------------------
(* Claim C14: the four-example scenario (SpecScenario) *)

\* C14 as stated: examples 0, 1 and 2 are resolved at head 0 and example 3
\* at head 2, so the call returns sources = [0,0,0,2].
C14_ScenarioAsStated ==
    Finished => (Returned /\ sources = <<0, 0, 0, 2>>)

\* C14: in the scenario no example is resolved at head 0 - the uncertainty
\* of each of 0.9, 0.05, 0.05 and 0.5 is at or above the speed 0.1 - so
\* examples 0, 1 and 2 are each resolved at head 1 or head 2, the earliest
\* of the two whose vector is below the threshold (head 2 if none), and
\* example 3 is force-resolved at head 2.
C14_ScenarioSources ==
    /\ \A e \in 1..Len(ScenarioHead0) :
          _uncertainty(ScenarioHead0[e], 2) >= SpeedUnits(10)
    /\ Finished
       => /\ Returned
          /\ sources[4] = 2
          /\ \A e \in 1..3 : /\ sources[e] \in {1, 2}
                              /\ sources[e] = ExitHead(truth, e - 1)
          /\ \A e \in 1..4 : probs[e] = truth[e][sources[e] + 1]

\* the call returned with examples 0 and 2 resolved at head 1, example 1
\* at head 2
C14_Witness ==
    /\ Returned
    /\ batch_probs[1] = Vec(90)
    /\ sources = <<1, 2, 1, 2>>

----------------------------------------------------------------------------
(* Claim C15: label_size None at construction (SpecConstruct) *)

\* C15: constructing FastBERTClassifier, TinyBERTClassifier or
\* TinyBERTBinaryClassifier with label_size None fails inside the
\* constructor with an error: no object is returned, so no predict, score
\* or export is ever called on it.
C15_MissingLabelSize ==
    args[1].label_size = None
    => /\ pc \in {"new", "AssertionError"}
       /\ call = None
       /\ last_forward = None
       /\ _graph_mode = "None"

\* the constructor of a TinyBERT classifier was run with label_size None
\* and raised
C15_Witness ==
    /\ args[1].label_size = None
    /\ args[1].cls = "TinyBERTBinaryClassifier"
    /\ pc = "AssertionError"
    /\ batch_size = 0

----------------------------------------------------------------------------
(* Claim C16: where a shard starts (Spec) *)

\* C16: for each device d in 0..D-1 the unfinished list of d starts as the
\* original positions d*shard_size .. d*shard_size + shard_size - 1,
\* whatever number of stream vectors the devices before d consumed.
C16_ShardStart ==
    (pc = "loop" /\ loop = 0)
    => unfinished = [j \in 1..d_batch_size |-> d * d_batch_size + (j - 1)]

----------------------------------------------------------------------------
(* Claim C17: which probability the test reads (SpecTest) *)

\* C17: the resolution test applied to a consumed vector is the test on
\* the uncertainty of the vector's top-class (largest) probability, for
\* every label_size >= 2 and whichever class index holds the maximum.
C17_TopClass ==
    pc = "value"
    => result[1] = (\/ _uncertainty(TopProb(args[1].vec), args[1].label_size)
                         < SpeedUnits(args[1].speed)
                    \/ args[1].loop = args[1].max_loop - 1)

----------------------------------------------------------------------------
(* Claim C18: one step of the inner loop, and the list it leaves (Spec) *)

\* C18: at iteration loop the unfinished example examined is resolved (its
\* row of probs and sources is assigned) if and only if its uncertainty is
\* strictly below speed or loop == max_loop-1, and is otherwise appended to
\* next_unfinished; the unfinished list of the next iteration is exactly
\* the examples not resolved, in their previous relative order, so it never
\* grows, never reorders and never regains a resolved example.
C18_ResolutionStep ==
    [][/\ (pc = "inner" /\ k < Len(unfinished))
          => LET e == At(unfinished, k)
                 vec == At(batch_probs, i)
                 exits == \/ _uncertainty(TopProb(vec), label_size)
                               < SpeedUnits(_speed)
                          \/ loop = max_loop - 1
             IN  /\ exits => /\ e < batch_size
                             /\ written' = [written EXCEPT ![e + 1] = @ + 1]
                             /\ probs'[e + 1] = vec
                             /\ sources'[e + 1] = source
                             /\ next_unfinished' = next_unfinished
                 /\ ~exits => /\ written' = written
                              /\ next_unfinished' =
                                     Append(next_unfinished, e)
       /\ (pc = "inner" /\ pc' = "loop")
          => /\ Len(unfinished') <= Len(unfinished)
             /\ unfinished' =
                   SelectSeq(unfinished,
                             LAMBDA e : \/ e >= batch_size
                                        \/ written[e + 1] = 0)
      ]_vars

----------------------------------------------------------------------------
(* Claim C19: which head an iteration records (Spec) *)

\* the heads of 0..L outside the ignore list, as a set
KeptSet == (0..num_hidden_layers) \ Elems(_ignore_cls)

\* C19: for every ignore set within 0..L, max_loop = (L+1) - |ignore set|
\* is the number of kept heads, keep_cls is the ascending list of the heads
\* of 0..L outside the ignore set, iteration loop records the source
\* keep_cls[loop], and the forced-exit iteration max_loop-1 records the
\* deepest kept head.
C19_LoopToHead ==
    pc # "call"
    => /\ max_loop = (num_hidden_layers + 1) - Cardinality(Elems(_ignore_cls))
       /\ max_loop = Cardinality(KeptSet)
       /\ Len(keep_cls) = max_loop
       /\ keep_cls = SortedSeq(KeptSet)
       /\ pc # "IndexError_keep_cls"
       /\ pc = "inner"
          => /\ loop < max_loop
             /\ source = SortedSeq(KeptSet)[loop + 1]
             /\ loop = max_loop - 1
                => \A h \in KeptSet : h <= source
       /\ \A p \in 1..Len(written) :
             written[p] > 0 => sources[p] \in KeptSet

\* the forced-exit iteration of a run that skips a head: its source is the
\* deepest kept head, and the loop index is not the head id
C19_Witness ==
    /\ pc = "inner"
    /\ loop = max_loop - 1
    /\ loop >= 1
    /\ _ignore_cls # <<>>
    /\ source # loop
    /\ k = Len(unfinished)
    /\ \E p \in Positions : written[p + 1] = 1 /\ sources[p + 1] = source

----------------------------------------------------------------------------
(* Claim C20: the lengths of the unfinished lists of one shard (Spec) *)

\* the loop of lines 263-275 is over for shard d
ShardDone == pc = "loop" /\ loop >= max_loop

\* C20 as stated: for each shard, the lengths of the unfinished list summed
\* over the loop iterations give N, the number of examples of the shard.
C20_SumIsShardSize ==
    ShardDone => len_sum = d_batch_size

\* C20: for each shard, the lengths of the unfinished list summed over the
\* loop iterations give the number of stream vectors the shard consumes:
\* one for every example resolved plus one for every time an example is
\* carried to the next iteration.  When a head is kept and the shard's loop
\* ends, that is N plus the number of carries, which is N only if every
\* example exits at the first kept head; with no head kept it is 0.
C20_SumIsVectorsConsumed ==
    /\ pc = "loop"
       => /\ Len(unfinished) <= d_batch_size
          /\ len_sum = (d_batch_size - Len(unfinished)) + n_carried
          /\ d = 0 => len_sum = i
    /\ ShardDone
       => /\ max_loop >= 1 => /\ unfinished = <<>>
                               /\ len_sum = d_batch_size + n_carried
          /\ max_loop = 0 => len_sum = 0
          /\ (len_sum = d_batch_size) <=> (max_loop >= 1 /\ n_carried = 0)

\* a shard of two examples ended after one of them was carried once: three
\* vectors for two examples
C20_Witness ==
    /\ ShardDone
    /\ d_batch_size = 2
    /\ n_carried = 1
    /\ len_sum = 3

----------------------------------------------------------------------------
(* Claim C21: batch_size after convert and the device count (SpecConvert) *)

\* C21: after convert has lowered batch_size for an input of n_inputs
\* examples, batch_size is a multiple of the device count n_device that
\* _permutate uses: n_device * (batch_size // n_device) = batch_size, and no
\* tail position is outside every shard.
C21_Divisibility ==
    (pc = "device" /\ args[1].n_inputs < args[1].batch_size)
    => /\ n_device * d_batch_size = batch_size
       /\ batch_size % n_device = 0

----------------------------------------------------------------------------
(* Claim C22: the XLNet memory window (SpecMem) *)

\* the last n entries of s (all of s when it has fewer)
LastEntries(s, n) ==
    IF Len(s) <= n THEN s ELSE [j \in 1..n |-> s[Len(s) - n + j]]

\* the entries of the current output that may be cached
Reusable(curr_out, reuse_len) ==
    IF reuse_len # None /\ reuse_len[1] > 0
    THEN [j \in 1..(IF reuse_len[1] < Len(curr_out) THEN reuse_len[1]
                     ELSE Len(curr_out)) |-> curr_out[j]]
    ELSE curr_out

\* C22: over any sequence of _cache_mem calls that feed the returned memory
\* back as prev_mem, the result is None when mem_len is None or 0;
\* otherwise the memory never holds more than mem_len entries, it is the
\* last mem_len entries of prev_mem followed by the current output, and
\* when reuse_len > 0 only the first reuse_len entries of the current
\* output can enter it.
C22_MemoryWindow ==
    args[1].n_calls >= 1
    => LET a == args[1]
           prev == IF a.prev_mem = None THEN <<>> ELSE a.prev_mem[1]
       IN  IF a.mem_len = None \/ a.mem_len = Some(0)
           THEN result = None
           ELSE /\ result # None
                /\ Len(result[1]) <= a.mem_len[1]
                /\ result[1] = LastEntries(prev \o Reusable(a.curr_out,
                                                             a.reuse_len),
                                           a.mem_len[1])
                /\ (a.reuse_len # None /\ a.reuse_len[1] > 0)
                   => \A j \in 1..Len(result[1]) :
                         result[1][j][1] = a.n_calls
                         => result[1][j][2] <= a.reuse_len[1]

\* a full memory after the second segment or later: it holds entries of an
\* earlier segment and of the current one, whose output was longer than
\* reuse_len
C22_Witness ==
    /\ args[1].n_calls >= 2
    /\ args[1].mem_len # None /\ args[1].reuse_len # None
    /\ args[1].reuse_len[1] > 0
    /\ Len(args[1].curr_out) > args[1].reuse_len[1]
    /\ result # None
    /\ Len(result[1]) = args[1].mem_len[1]
    /\ \E j1, j2 \in 1..Len(result[1]) :
          /\ result[1][j1][1] < args[1].n_calls
          /\ result[1][j2][1] = args[1].n_calls

----------------------------------------------------------------------------
(* Claim C23: the rows _permutate writes (Spec) *)

\* C23: in every step of _permutate, for any device count and any stream
\* produced by the cascade schedule, the index unfinished[k] of a write to
\* probs and sources lies in 0..batch_size-1: no write falls outside the
\* table, none raises an index error.
C23_InBoundsWrites ==
    /\ pc # "IndexError_probs"
    /\ pc \in {"loop", "inner"}
       => \A j \in 1..Len(unfinished) : unfinished[j] \in 0..(batch_size - 1)

----------------------------------------------------------------------------
(* Claim C24: one device (SpecSingle) *)

\* the first kept head at which the probability the code tests (class 0)
\* of example e has uncertainty below speed, or the last kept head
TestedExitHead(table, e) ==
    LET keep == KeptHeads
        hits == {j \in 1..Len(keep) :
                    /\ table[e + 1][keep[j] + 1] # NotComputed
                    /\ _uncertainty(At(table[e + 1][keep[j] + 1], 0),
                                    label_size) < SpeedUnits(_speed)}
    IN  IF hits = {} THEN keep[Len(keep)]
        ELSE keep[CHOOSE j \in hits : \A j2 \in hits : j <= j2]

----------------------------------------------------------------------------
(* Claim C25: the two copies of _permutate (SpecBoth) *)

\* C25: the _permutate of _get_predict_outputs and that of
\* _get_score_outputs, on the same batch_probs and the same attributes
\* (speed, ignore list, batch_size, device count, label_size), consume the
\* same number of stream vectors and either both return, with equal probs
\* tables (and equal sources), or both raise, the same exception.
C25_PredictScoreEquivalence ==
    result # None
    => /\ result[1].pc = pc
       /\ result[1].i = i
       /\ Returned => /\ result[1].probs = probs
                       /\ result[1].sources = sources

\* both copies returned a table in which an example was carried past head 0
C25_Witness ==
    /\ result # None
    /\ Returned
    /\ result[1].pc = "return"
    /\ batch_size = 2
    /\ \E p \in 1..batch_size : result[1].sources[p] # 0
    /\ \E p \in 1..batch_size : result[1].probs[p] = Vec(50)

----------------------------------------------------------------------------
(* Claim C26: a higher speed (SpecSpeed) *)

\* the iteration at which the cascade lets example e out under speed: the
\* first kept head whose vector has uncertainty below speed, or the last
ExitIter(table, e, speed) ==
    LET keep == KeptHeads
        hits == {j \in 1..Len(keep) :
                    _uncertainty(TopProb(table[e + 1][keep[j] + 1]),
                                 label_size) < SpeedUnits(speed)}
    IN  IF hits = {} THEN Len(keep) - 1
        ELSE (CHOOSE j \in hits : \A j2 \in hits : j <= j2) - 1

\* C26: for fixed vectors of every example at every head and a fixed ignore
\* set, if speed1 <= speed2 then under speed2 every example's exit
\* iteration, and the source head _permutate returns for it, is no later
\* than under speed1, and the number of stream vectors the cascade produces
\* and the number _permutate consumes are no larger; with speed 0 no
\* example exits before the last kept head.
C26_MonotoneInSpeed ==
    (call_no = 2 /\ Finished /\ Len(KeptHeads) >= 1)
    => LET first == first_outcome[1]
           speed1 == saved_input[1].speed1
           speed2 == saved_input[1].speed2
       IN  /\ \A e \in Positions :
                 ExitIter(truth, e, speed2) <= ExitIter(truth, e, speed1)
           /\ Len(batch_probs) <= first.produced
           /\ i <= first.i
           /\ (Returned /\ first.pc = "return")
              => \A e \in Positions : sources[e + 1] <= first.sources[e + 1]
           /\ speed1 = 0
              => /\ \A e \in Positions :
                       ExitIter(truth, e, speed1) = Len(KeptHeads) - 1
                 /\ first.pc = "return"
                    => \A e \in Positions :
                          first.sources[e + 1] = KeptHeads[Len(KeptHeads)]

----------------------------------------------------------------------------
(* Claim C27: calls that repeat the stored pair (SpecFacade) *)

\* C27: a predict, score or export call whose parsed ignore_cls and speed
\* both equal the values stored on the facade leaves _ignore_cls, _speed
\* and _graph_mode unchanged; and after any sequence of calls the stored
\* (_ignore_cls, _speed) pair is the parsed arguments of the most recent
\* call.
C27_NoSpuriousInvalidation ==
    /\ [](call # None => /\ _ignore_cls = call[1].ignore_cls
                         /\ _speed = call[1].speed)
    /\ [][(/\ pc = "idle" /\ pc' = "delegate"
           /\ call'[1].ignore_cls = _ignore_cls
           /\ call'[1].speed = _speed)
          => UNCHANGED <<_ignore_cls, _speed, _graph_mode>>]_vars

\* a call that repeats a pair stored by an earlier call, not the pair of
\* __init__, and finds the graph of that earlier call still cached
C27_Witness ==
    /\ pc = "delegate"
    /\ ~call[1].changed
    /\ _graph_mode = "infer"
    /\ _ignore_cls # <<0>>
    /\ _speed # 10
    /\ last_forward # None
    /\ last_forward[1].op # call[1].op

----------------------------------------------------------------------------
(* Claim C28: the ignore list of a training graph (SpecForward) *)

\* C28: _forward with is_training true constructs the cascade with an
\* empty ignore list whatever _ignore_cls holds, _forward with is_training
\* false constructs it with the stored _ignore_cls, both pass the stored
\* _speed, and neither changes _ignore_cls or _speed.
C28_TrainingIgnoresIgnoreSet ==
    /\ [](result # None =>
            /\ result[1].is_training => result[1].distillor.ignore_cls = <<>>
            /\ ~result[1].is_training =>
                   result[1].distillor.ignore_cls = _ignore_cls
            /\ result[1].distillor.speed = _speed)
    /\ [][UNCHANGED <<_ignore_cls, _speed>>]_vars

\* a training graph built on a facade whose stored ignore list is neither
\* empty nor the default
C28_Witness ==
    /\ result # None
    /\ result[1].is_training
    /\ Len(_ignore_cls) = 2
    /\ result[1].distillor.ignore_cls = <<>>

----------------------------------------------------------------------------
(* Claim C29: to_bert and the built graph (SpecToBert) *)

\* C29: to_bert on a classifier whose graph is not built raises ValueError,
\* leaves init_checkpoint as it was and writes nothing; on a classifier
\* whose graph is built it sets init_checkpoint to
\* save_dir + '/bert_model.ckpt' and saves there exactly the variables
\* whose names start with 'tiny/'; so that nothing is ever written for an
\* object without a graph.
C29_ToBertNeedsGraph ==
    /\ [][/\ ~_graph_built =>
               /\ pc' = "ValueError"
               /\ UNCHANGED <<init_checkpoint, files>>
          /\ _graph_built =>
               /\ pc' = "idle_tiny"
               /\ init_checkpoint' =
                     Some(call'[1].save_dir \o <<"/bert_model.ckpt">>)
               /\ init_checkpoint'[1] \in DOMAIN files'
               /\ {files'[init_checkpoint'[1]][key] :
                      key \in DOMAIN files'[init_checkpoint'[1]]} =
                     {v \in global_variables : v[1] = "tiny"}]_vars
    /\ [](files # <<>> => _graph_built)
    /\ [](pc = "ValueError" => ~_graph_built /\ files = <<>>)

\* a refused call on an object that holds a checkpoint path
C29_Witness ==
    /\ pc = "ValueError"
    /\ call # None
    /\ call[1].op = "to_bert"
    /\ init_checkpoint = Some(<<"pretrained", "/bert_model.ckpt">>)
    /\ files = <<>>

----------------------------------------------------------------------------
(* Claim C30: reads of keep_cls (SpecHeads) *)

\* C30: for any stored ignore list, with repeated entries or entries
\* outside 0..L, max_loop = L + 1 - len(ignore list) is at most
\* len(keep_cls), so that keep_cls[loop] is in range in every iteration
\* of the loop and no read of keep_cls raises IndexError.
C30_HeadIndexSafety ==
    /\ pc # "IndexError_keep_cls"
    /\ pc # "call" =>
          /\ max_loop = num_hidden_layers + 1 - Len(_ignore_cls)
          /\ max_loop <= Len(keep_cls)
    /\ pc = "inner" =>
          /\ loop < max_loop
          /\ loop < Len(keep_cls)
          /\ source = keep_cls[loop + 1]

\* the last iteration, after an earlier one, under a list whose entries
\* are repeated or above the last head, so that fewer heads are removed
\* from keep_cls than max_loop counts
C30_Witness ==
    /\ pc = "inner"
    /\ loop >= 1
    /\ loop = max_loop - 1
    /\ _ignore_cls # <<>>
    /\ max_loop < Len(keep_cls)

====
